---- MODULE Spec2Model ----
(***************************************************************************)
(* Blockchain indexer: block validation (validation.ts), the UTXO ledger   *)
(* and the rollback engine (utxo.ts) over the relational store             *)
(* (database.ts), and the two POST handlers of index.ts.                   *)
(*                                                                         *)
(* The store is the record db: the four tables of createTables.  Every     *)
(* function of the source is an operator on a store value; a function that *)
(* can throw returns [db, err], err = OK when it resolves.                 *)
(***************************************************************************)
EXTENDS Integers, Sequences, FiniteSets, TLC

VARIABLES db, response, applied, inflight

vars == <<db, response, applied, inflight>>

----------------------------------------------------------------------------
(* Bounds of the model. *)

\* Greatest block height a request may carry.
MaxHeight == 3

\* The requests stop once an address balance is below -MaxOverdraft: the
\* drift of a balance is unbounded otherwise.
MaxOverdraft == 1

----------------------------------------------------------------------------
(* Values of the source's types (types.ts) and outcomes. *)

OK == "ok"

\* spent_in_tx of a UTXO that is not spent (SQL NULL).
NULL == "NULL"

\* The messages of the ValidationError instances validation.ts throws.
InvalidHeight == "InvalidHeight"
InvalidBlockId == "InvalidBlockId"
InputNotFound == "InputNotFound"
ValueMismatch == "ValueMismatch"
InvalidRollbackHeight == "InvalidRollbackHeight"

ValidationError ==
    {InvalidHeight, InvalidBlockId, InputNotFound, ValueMismatch, InvalidRollbackHeight}

\* The plain Error thrown by spendUTXO, and the store's constraint violation.
UtxoError == "Error: UTXO not found or already spent"
UniqueViolation == "DatabaseError: unique_violation"

\* What the handlers of index.ts answer for an error that is no ValidationError.
InternalError == "InternalError"

\* What POST /rollback answers for a height parameter that is missing or is
\* no non-negative number.
BadRequest == "BadRequest"

\* The transaction ids of the model in ascending byte order (the order of
\* Array.prototype.sort on strings and of ORDER BY id).
IdOrder == <<"a", "b", "c", "tx1", "tx2", "tx3">>

Rank(id) == CHOOSE i \in 1..Len(IdOrder) : IdOrder[i] = id

Out(address, value) == [address |-> address, value |-> value]
In(txId, index) == [txId |-> txId, index |-> index]
Tx(id, inputs, outputs) == [id |-> id, inputs |-> inputs, outputs |-> outputs]

----------------------------------------------------------------------------
(* The store: createTables. *)

EmptyDB ==
    [blocks |-> {}, transactions |-> {}, utxos |-> {}, address_balances |-> <<>>]

Ctx(d, e) == [db |-> d, err |-> e]

\* SELECT MAX(height) FROM blocks (NULL, read as 0, on an empty table).
MaxStoredHeight(d) ==
    IF d.blocks = {} THEN 0
    ELSE CHOOSE h \in {b.height : b \in d.blocks} :
             \A b \in d.blocks : b.height <= h

\* SELECT address, value FROM utxos
\* WHERE tx_id = $1 AND output_index = $2 AND is_spent = FALSE
UnspentRows(d, input) ==
    {u \in d.utxos : u.tx_id = input.txId /\ u.output_index = input.index
                     /\ ~u.is_spent}

----------------------------------------------------------------------------
(* utxo.ts: forward application. *)

\* Faulty variant of updateAddressBalance: ON CONFLICT sets the balance to
\* the new value instead of adding it.
updateAddressBalanceOverwrite(d, address, deltaValue) ==
    [d EXCEPT !.address_balances =
        IF address \in DOMAIN d.address_balances
        THEN [d.address_balances EXCEPT ![address] = deltaValue]
        ELSE d.address_balances @@ (address :> deltaValue)]

updateAddressBalance(d, address, deltaValue) ==
    [d EXCEPT !.address_balances =
        IF address \in DOMAIN d.address_balances
        THEN [d.address_balances EXCEPT ![address] = @ + deltaValue]
        ELSE d.address_balances @@ (address :> deltaValue)]

getAddressBalance(d, address) ==
    IF address \in DOMAIN d.address_balances THEN d.address_balances[address] ELSE 0

\* Faulty variant of spendUTXO: the UPDATE sets is_spent only and leaves
\* spent_in_tx as it was.
spendUTXOWithoutSpender(c, input, spendingTxId) ==
    IF c.err # OK THEN c
    ELSE IF UnspentRows(c.db, input) = {} THEN Ctx(c.db, UtxoError)
    ELSE LET row == CHOOSE u \in UnspentRows(c.db, input) : TRUE
             marked == [c.db EXCEPT !.utxos =
                          (@ \ {row}) \cup {[row EXCEPT !.is_spent = TRUE]}]
         IN Ctx(updateAddressBalance(marked, row.address, -row.value), OK)

spendUTXO(c, input, spendingTxId) ==
    IF c.err # OK THEN c
    ELSE IF UnspentRows(c.db, input) = {} THEN Ctx(c.db, UtxoError)
    ELSE LET row == CHOOSE u \in UnspentRows(c.db, input) : TRUE
             marked == [c.db EXCEPT !.utxos =
                          (@ \ {row}) \cup
                          {[row EXCEPT !.is_spent = TRUE, !.spent_in_tx = spendingTxId]}]
         IN Ctx(updateAddressBalance(marked, row.address, -row.value), OK)

\* Faulty variant of createUTXO: the row is inserted but the balance of
\* the address is not updated.
createUTXOWithoutCredit(c, txId, index, output, blockHeight) ==
    IF c.err # OK THEN c
    ELSE IF \E u \in c.db.utxos : u.tx_id = txId /\ u.output_index = index
    THEN Ctx(c.db, UniqueViolation)
    ELSE LET row == [tx_id |-> txId, output_index |-> index,
                     address |-> output.address, value |-> output.value,
                     is_spent |-> FALSE, spent_in_tx |-> NULL,
                     block_height |-> blockHeight]
         IN Ctx([c.db EXCEPT !.utxos = @ \cup {row}], OK)

createUTXO(c, txId, index, output, blockHeight) ==
    IF c.err # OK THEN c
    ELSE IF \E u \in c.db.utxos : u.tx_id = txId /\ u.output_index = index
    THEN Ctx(c.db, UniqueViolation)
    ELSE LET row == [tx_id |-> txId, output_index |-> index,
                     address |-> output.address, value |-> output.value,
                     is_spent |-> FALSE, spent_in_tx |-> NULL,
                     block_height |-> blockHeight]
             inserted == [c.db EXCEPT !.utxos = @ \cup {row}]
         IN Ctx(updateAddressBalance(inserted, output.address, output.value), OK)

RECURSIVE SpendInputs(_, _, _, _)
\* for (const input of transaction.inputs) spendUTXO(...)
SpendInputs(c, inputs, i, txId) ==
    IF i > Len(inputs) THEN c
    ELSE SpendInputs(spendUTXO(c, inputs[i], txId), inputs, i + 1, txId)

RECURSIVE CreateOutputs(_, _, _, _, _)
\* for (index = 0; index < outputs.length; index++) createUTXO(...)
CreateOutputs(c, outputs, i, txId, blockHeight) ==
    IF i > Len(outputs) THEN c
    ELSE CreateOutputs(createUTXO(c, txId, i - 1, outputs[i], blockHeight),
                       outputs, i + 1, txId, blockHeight)

\* INSERT INTO transactions (id PRIMARY KEY, block_id REFERENCES blocks)
InsertTransaction(c, id, blockHeight) ==
    IF c.err # OK THEN c
    ELSE IF \E t \in c.db.transactions : t.id = id THEN Ctx(c.db, UniqueViolation)
    ELSE LET blk == CHOOSE b \in c.db.blocks : b.height = blockHeight
         IN Ctx([c.db EXCEPT !.transactions =
                    @ \cup {[id |-> id, block_id |-> blk.id,
                             block_height |-> blockHeight]}], OK)

processTransaction(c, transaction, blockHeight) ==
    CreateOutputs(
        SpendInputs(InsertTransaction(c, transaction.id, blockHeight),
                    transaction.inputs, 1, transaction.id),
        transaction.outputs, 1, transaction.id, blockHeight)

RECURSIVE ProcessTransactions(_, _, _, _)
\* for (const transaction of block.transactions) processTransaction(...)
ProcessTransactions(c, transactions, i, blockHeight) ==
    IF i > Len(transactions) THEN c
    ELSE ProcessTransactions(processTransaction(c, transactions[i], blockHeight),
                             transactions, i + 1, blockHeight)

\* Faulty variant of InsertBlock: the blocks table has no PRIMARY KEY and no
\* UNIQUE constraint.
InsertBlockNoConstraint(d, block) ==
    Ctx([d EXCEPT !.blocks = @ \cup {[id |-> block.id, height |-> block.height]}], OK)

\* INSERT INTO blocks (id PRIMARY KEY, height UNIQUE)
InsertBlock(d, block) ==
    IF \E b \in d.blocks : b.id = block.id \/ b.height = block.height
    THEN Ctx(d, UniqueViolation)
    ELSE Ctx([d EXCEPT !.blocks = @ \cup {[id |-> block.id, height |-> block.height]}],
             OK)

\* Faulty variant of Finish: the catch block does not ROLLBACK, so the work
\* done before the failure stays.
FinishWithoutRollback(snapshot, c) == c

\* COMMIT keeps the work of the transaction, ROLLBACK restores the store as
\* it was at BEGIN; the error is thrown again.
Finish(snapshot, c) == IF c.err = OK THEN c ELSE Ctx(snapshot, c.err)

processBlock(d, block) ==
    Finish(d, ProcessTransactions(InsertBlock(d, block), block.transactions, 1,
                                  block.height))

----------------------------------------------------------------------------
(* utxo.ts: rollback. *)

RECURSIVE AdjustBalances(_, _, _)
\* for (const row of rows) updateAddressBalance(row.address, sign * row.value)
AdjustBalances(d, rows, sign) ==
    IF rows = {} THEN d
    ELSE LET row == CHOOSE u \in rows : TRUE
         IN AdjustBalances(updateAddressBalance(d, row.address, sign * row.value),
                           rows \ {row}, sign)

\* Faulty variant of rollbackTransaction: the UTXOs the transaction spent
\* are marked unspent but their value is not credited back.
rollbackTransactionNoCredit(d, transactionId) ==
    LET outputs == {u \in d.utxos : u.tx_id = transactionId}
        d1 == AdjustBalances(d, outputs, -1)
        d2 == [d1 EXCEPT !.utxos = @ \ outputs]
        spentUTXOs == {u \in d2.utxos : u.spent_in_tx = transactionId}
        d3 == [d2 EXCEPT !.utxos =
                 (@ \ spentUTXOs) \cup
                 {[u EXCEPT !.is_spent = FALSE, !.spent_in_tx = NULL] : u \in spentUTXOs}]
    IN [d3 EXCEPT !.transactions = {t \in @ : t.id # transactionId},
                  !.utxos = {u \in @ : u.tx_id # transactionId}]

\* Faulty variant of rollbackTransaction: the value of the UTXOs the
\* transaction spent is credited back but the rows stay marked spent.
rollbackTransactionKeepsSpent(d, transactionId) ==
    LET outputs == {u \in d.utxos : u.tx_id = transactionId}
        d1 == AdjustBalances(d, outputs, -1)
        d2 == [d1 EXCEPT !.utxos = @ \ outputs]
        spentUTXOs == {u \in d2.utxos : u.spent_in_tx = transactionId}
        d4 == AdjustBalances(d2, spentUTXOs, 1)
    IN [d4 EXCEPT !.transactions = {t \in @ : t.id # transactionId},
                  !.utxos = {u \in @ : u.tx_id # transactionId}]

rollbackTransaction(d, transactionId) ==
    LET outputs == {u \in d.utxos : u.tx_id = transactionId}
        d1 == AdjustBalances(d, outputs, -1)
        d2 == [d1 EXCEPT !.utxos = @ \ outputs]
        spentUTXOs == {u \in d2.utxos : u.spent_in_tx = transactionId}
        d3 == [d2 EXCEPT !.utxos =
                 (@ \ spentUTXOs) \cup
                 {[u EXCEPT !.is_spent = FALSE, !.spent_in_tx = NULL] : u \in spentUTXOs}]
        d4 == AdjustBalances(d3, spentUTXOs, 1)
    IN [d4 EXCEPT !.transactions = {t \in @ : t.id # transactionId},
                  !.utxos = {u \in @ : u.tx_id # transactionId}]

RECURSIVE OrderById(_)
\* The ids as ORDER BY id returns them: ascending.
OrderById(ids) ==
    IF ids = {} THEN <<>>
    ELSE LET first == CHOOSE i \in ids : \A j \in ids : Rank(i) <= Rank(j)
         IN <<first>> \o OrderById(ids \ {first})

\* SELECT id FROM transactions WHERE block_id = $1 ORDER BY id
TransactionsOfBlock(d, blockId) ==
    OrderById({t.id : t \in {r \in d.transactions : r.block_id = blockId}})

RECURSIVE RollbackTransactions(_, _)
\* for (const tx of transactions.rows) rollbackTransaction(tx.id)
RollbackTransactions(d, rows) ==
    IF rows = <<>> THEN d
    ELSE RollbackTransactions(rollbackTransaction(d, Head(rows)), Tail(rows))

rollbackBlock(d, blockId, blockHeight) ==
    RollbackTransactions(d, TransactionsOfBlock(d, blockId))

RECURSIVE OrderByHeightDesc(_)
\* The block rows as ORDER BY height DESC returns them.
OrderByHeightDesc(rows) ==
    IF rows = {} THEN <<>>
    ELSE LET top == CHOOSE b \in rows : \A o \in rows : o.height <= b.height
         IN <<top>> \o OrderByHeightDesc(rows \ {top})

\* SELECT id, height FROM blocks WHERE height > $1 ORDER BY height DESC
BlocksToRemove(d, targetHeight) ==
    OrderByHeightDesc({b \in d.blocks : b.height > targetHeight})

RECURSIVE RollbackBlocks(_, _)
\* for (const block of blocksToRemove.rows) rollbackBlock(block.id, block.height)
RollbackBlocks(d, rows) ==
    IF rows = <<>> THEN d
    ELSE RollbackBlocks(rollbackBlock(d, Head(rows).id, Head(rows).height), Tail(rows))

\* DELETE FROM blocks WHERE height > $1, with ON DELETE CASCADE on
\* transactions.block_id and utxos.tx_id
DeleteBlocksAbove(d, targetHeight) ==
    LET gone == {b.id : b \in {r \in d.blocks : r.height > targetHeight}}
        goneTx == {t.id : t \in {r \in d.transactions : r.block_id \in gone}}
    IN [d EXCEPT !.blocks = {b \in @ : b.height <= targetHeight},
                 !.transactions = {t \in @ : t.block_id \notin gone},
                 !.utxos = {u \in @ : u.tx_id \notin goneTx}]

\* The statements of rollbackToHeight after its SELECT, run on the store d
\* with the rows the SELECT returned: the loop over the rows, the DELETE
\* and COMMIT.
UndoSelected(d, rows, targetHeight) ==
    Ctx(DeleteBlocksAbove(RollbackBlocks(d, rows), targetHeight), OK)

\* Faulty variant of rollbackToHeight: the two statements select on
\* height >= $1, so the block at the target height goes too.
rollbackToHeightInclusive(d, targetHeight) ==
    UndoSelected(d, BlocksToRemove(d, targetHeight - 1), targetHeight - 1)

rollbackToHeight(d, targetHeight) ==
    UndoSelected(d, BlocksToRemove(d, targetHeight), targetHeight)

----------------------------------------------------------------------------
(* validation.ts *)

\* createHash("sha256").update(s).digest("hex"): a function of the hashed
\* string, taken to be free of collisions.
Sha256(s) == "sha256(" \o s \o ")"

RECURSIVE InsertSorted(_, _)
InsertSorted(sorted, id) ==
    IF sorted = <<>> THEN <<id>>
    ELSE IF Rank(id) <= Rank(Head(sorted)) THEN <<id>> \o sorted
    ELSE <<Head(sorted)>> \o InsertSorted(Tail(sorted), id)

RECURSIVE SortIds(_)
\* block.transactions.map((tx) => tx.id).sort()
SortIds(ids) ==
    IF ids = <<>> THEN <<>> ELSE InsertSorted(SortIds(Tail(ids)), Head(ids))

RECURSIVE Join(_)
\* transactionIds.join("")
Join(ids) == IF ids = <<>> THEN "" ELSE Head(ids) \o Join(Tail(ids))

\* Faulty variant of ExpectedId: the ids are concatenated in array order,
\* without sort().
ExpectedIdUnsorted(height, transactions) ==
    Sha256(ToString(height)
           \o Join([i \in 1..Len(transactions) |-> transactions[i].id]))

\* sha256(height + transaction1.id + ... + transactionN.id), ids sorted
ExpectedId(height, transactions) ==
    Sha256(ToString(height)
           \o Join(SortIds([i \in 1..Len(transactions) |-> transactions[i].id])))

\* Faulty variant of validateBlockHeight: only a height at or below the
\* current one is refused, so a gap is accepted.
validateBlockHeightAllowsGap(d, height) ==
    IF height <= MaxStoredHeight(d) THEN InvalidHeight ELSE OK

validateBlockHeight(d, height) ==
    LET currentHeight == MaxStoredHeight(d)
        expectedHeight == currentHeight + 1
    IN IF height # expectedHeight THEN InvalidHeight ELSE OK

validateBlockId(block) ==
    IF block.id # ExpectedId(block.height, block.transactions)
    THEN InvalidBlockId ELSE OK

\* Faulty variant of getInputValue: the query leaves out is_spent = FALSE.
getInputValueAnyRow(d, input) ==
    LET rows == {u \in d.utxos : u.tx_id = input.txId /\ u.output_index = input.index}
    IN IF rows = {} THEN [err |-> InputNotFound, value |-> 0]
       ELSE [err |-> OK, value |-> (CHOOSE u \in rows : TRUE).value]

\* The value of the unspent row the input names, or the ValidationError
\* thrown when the query returns no row.
getInputValue(d, input) ==
    LET rows == {u \in d.utxos : u.tx_id = input.txId /\ u.output_index = input.index
                                 /\ ~u.is_spent}
    IN IF rows = {} THEN [err |-> InputNotFound, value |-> 0]
       ELSE [err |-> OK, value |-> (CHOOSE u \in rows : TRUE).value]

RECURSIVE InputValues(_, _, _)
\* for (const input of transaction.inputs) inputValues.push(getInputValue(...)):
\* the total of the values, or the first error thrown
InputValues(d, inputs, i) ==
    IF i > Len(inputs) THEN [err |-> OK, value |-> 0]
    ELSE LET v == getInputValue(d, inputs[i])
             rest == InputValues(d, inputs, i + 1)
         IN IF v.err # OK THEN v
            ELSE IF rest.err # OK THEN rest
            ELSE [err |-> OK, value |-> v.value + rest.value]

RECURSIVE SumOutputs(_, _)
\* outputValues.reduce((sum, value) => sum + value, 0)
SumOutputs(outputs, i) ==
    IF i > Len(outputs) THEN 0 ELSE outputs[i].value + SumOutputs(outputs, i + 1)

\* Faulty variant of validateTransaction: the totals are not compared.
validateTransactionNoTotals(d, transaction) ==
    InputValues(d, transaction.inputs, 1).err

\* Faulty variant of validateTransaction: no early return for an empty
\* input list.
validateTransactionNoExemption(d, transaction) ==
    LET totalInputs == InputValues(d, transaction.inputs, 1)
        totalOutputs == SumOutputs(transaction.outputs, 1)
    IN IF totalInputs.err # OK THEN totalInputs.err
       ELSE IF totalInputs.value # totalOutputs THEN ValueMismatch
       ELSE OK

validateTransaction(d, transaction) ==
    LET totalInputs == InputValues(d, transaction.inputs, 1)
        totalOutputs == SumOutputs(transaction.outputs, 1)
    IN IF totalInputs.err # OK THEN totalInputs.err
       ELSE IF Len(transaction.inputs) = 0 THEN OK
       ELSE IF totalInputs.value # totalOutputs THEN ValueMismatch
       ELSE OK

RECURSIVE ValidateTransactions(_, _, _)
\* for (const transaction of block.transactions) validateTransaction(...)
ValidateTransactions(d, transactions, i) ==
    IF i > Len(transactions) THEN OK
    ELSE LET e == validateTransaction(d, transactions[i])
         IN IF e # OK THEN e ELSE ValidateTransactions(d, transactions, i + 1)

validateBlock(d, block) ==
    LET h == validateBlockHeight(d, block.height)
    IN IF h # OK THEN h
       ELSE LET i == validateBlockId(block)
            IN IF i # OK THEN i
               ELSE ValidateTransactions(d, block.transactions, 1)

\* Faulty variant of validateRollbackHeight: the target is not compared with
\* the current height.
validateRollbackHeightNoUpperBound(d, targetHeight) ==
    IF targetHeight < 0 THEN InvalidRollbackHeight ELSE OK

validateRollbackHeight(d, targetHeight) ==
    LET currentHeight == MaxStoredHeight(d)
    IN IF targetHeight < 0 THEN InvalidRollbackHeight
       ELSE IF targetHeight > currentHeight THEN InvalidRollbackHeight
       ELSE OK

----------------------------------------------------------------------------
(* index.ts: the handlers. *)

\* catch (error): a ValidationError is answered with its message, anything
\* else with "Internal Server Error".
Surface(e) == IF e = OK \/ e \in ValidationError THEN e ELSE InternalError

\* Faulty variant of ValidateBlockCall: a block that passes is recorded in
\* the blocks table by the validator.
ValidateBlockCallRecording(d, block) ==
    IF validateBlock(d, block) = OK THEN InsertBlock(d, block)
    ELSE Ctx(d, validateBlock(d, block))

\* await validateBlock(pool, block): the error thrown and the store the
\* call leaves.  Its statements are the SELECTs of validateBlockHeight and
\* getInputValue.
ValidateBlockCall(d, block) == Ctx(d, validateBlock(d, block))

\* await validateRollbackHeight(pool, heightNum): its one statement is the
\* SELECT MAX(height).
ValidateRollbackHeightCall(d, targetHeight) ==
    Ctx(d, validateRollbackHeight(d, targetHeight))

\* POST /blocks: validateBlock, then processBlock
PostBlocks(d, block) ==
    LET v == ValidateBlockCall(d, block)
    IN IF v.err # OK THEN Ctx(v.db, Surface(v.err))
       ELSE LET p == processBlock(v.db, block) IN Ctx(p.db, Surface(p.err))

\* A rollback request: validateRollbackHeight, then rollbackToHeight (the
\* try block of POST /rollback).
RollbackRequest(d, targetHeight) ==
    LET v == ValidateRollbackHeightCall(d, targetHeight)
    IN IF v.err # OK THEN v ELSE rollbackToHeight(v.db, targetHeight)

\* POST /rollback?height=: a height that parses to a negative number is
\* answered "Bad Request" by the handler itself; the others go through the
\* rollback request and the catch block.
PostRollback(d, heightNum) ==
    IF heightNum < 0 THEN Ctx(d, BadRequest)
    ELSE LET r == RollbackRequest(d, heightNum) IN Ctx(r.db, Surface(r.err))

----------------------------------------------------------------------------
(* The requests of the model. *)

\* The transactions a block may carry.  b mints; c and a spend its outputs
\* (c sorts after b, a before it); c2 pays out more than it takes in; a2
\* names one outpoint twice; a3 is a second mint.
Txs ==
    { Tx("b", <<>>, <<Out("x", 1), Out("y", 1)>>),
      Tx("c", <<In("b", 0)>>, <<Out("y", 1)>>),
      Tx("a", <<In("b", 0), In("b", 1)>>, <<Out("x", 1), Out("x", 1)>>),
      Tx("c", <<In("b", 0)>>, <<Out("y", 2)>>),
      Tx("a", <<In("b", 0), In("b", 0)>>, <<Out("x", 2)>>),
      Tx("a", <<>>, <<Out("y", 2)>>) }

\* The transaction lists of the blocks: empty, one transaction, or two in
\* either order (the same one twice included).
TxSeqs == {<<>>} \cup {<<t>> : t \in Txs} \cup {<<s, t>> : s \in Txs, t \in Txs}

\* A block of the pool carries the id validateBlockId expects or another one.
Pool ==
    {[id |-> i, height |-> h, transactions |-> t] :
        h \in 1..MaxHeight, t \in TxSeqs, i \in {"invalid"}} \cup
    {[id |-> ExpectedId(h, t), height |-> h, transactions |-> t] :
        h \in 1..MaxHeight, t \in TxSeqs}

\* The blocks a caller of UTXOManager passes to processBlock without
\* validating them: built like those of the tests (createTestBlock).
DirectPool == {b \in Pool : b.id = ExpectedId(b.height, b.transactions)}

Targets == -1..MaxHeight

----------------------------------------------------------------------------
(* The state machine. *)

Resp(op, result) == [op |-> op, result |-> result]

\* The clients whose requests the server may be handling at once.
Clients == {"c1", "c2"}

\* A client with no request between two awaits of its handler.
Idle == [pc |-> "idle"]

Init ==
    /\ db = EmptyDB
    /\ response = Resp("init", OK)
    /\ applied = <<>>
    /\ inflight = [c \in Clients |-> Idle]

\* The blocks of the history that a rollback to targetHeight leaves stored.
Kept(blocks, targetHeight) == SelectSeq(blocks, LAMBDA b : b.height <= targetHeight)

\* No balance has drifted below -MaxOverdraft.
Bounded ==
    \A address \in DOMAIN db.address_balances :
        db.address_balances[address] >= -MaxOverdraft

\* a client posts a block while the server handles no other request
SubmitBlock(block) ==
    LET r == PostBlocks(db, block)
    IN /\ Bounded
       /\ db' = r.db
       /\ response' = Resp("POST /blocks", r.err)
       /\ applied' = IF r.err = OK THEN Append(applied, block) ELSE applied
       /\ UNCHANGED inflight

\* a caller of the class applies a block without validating it; callers
\* number their blocks from 1 and skip no height
ProcessBlock(block) ==
    LET r == processBlock(db, block)
    IN /\ Bounded
       /\ block.height <= MaxStoredHeight(db) + 1
       /\ db' = r.db
       /\ response' = Resp("processBlock", r.err)
       /\ applied' = IF r.err = OK THEN Append(applied, block) ELSE applied
       /\ UNCHANGED inflight

\* a client posts a rollback
Rollback(heightNum) ==
    LET r == PostRollback(db, heightNum)
    IN /\ Bounded
       /\ db' = r.db
       /\ response' = Resp("POST /rollback", r.err)
       /\ applied' = IF r.err = OK THEN Kept(applied, heightNum) ELSE applied
       /\ UNCHANGED inflight

\* a caller of the class rolls back without validating the height
RollbackToHeight(targetHeight) ==
    LET r == rollbackToHeight(db, targetHeight)
    IN /\ Bounded
       /\ db' = r.db
       /\ response' = Resp("rollbackToHeight", r.err)
       /\ applied' = Kept(applied, targetHeight)
       /\ UNCHANGED inflight

Next ==
    \/ \E block \in Pool : SubmitBlock(block)
    \/ \E block \in DirectPool : ProcessBlock(block)
    \/ \E heightNum \in Targets : Rollback(heightNum)
    \/ \E targetHeight \in Targets : RollbackToHeight(targetHeight)

Spec == Init /\ [][Next]_vars

----------------------------------------------------------------------------
(* The same handlers and calls, fed the blocks of the test suites. *)

TestBlock(height, transactions) ==
    [id |-> ExpectedId(height, transactions), height |-> height,
     transactions |-> transactions]

\* "should process complex transaction chain"
Block1 == TestBlock(1, <<Tx("tx1", <<>>, <<Out("genesis", 1000)>>)>>)
Block2 ==
    TestBlock(2, <<Tx("tx2", <<In("tx1", 0)>>,
                      <<Out("alpha", 300), Out("beta", 400), Out("charlie", 300)>>)>>)
Block3 ==
    TestBlock(3, <<Tx("tx3", <<In("tx2", 0)>>,
                      <<Out("delta", 150), Out("alpha", 150)>>)>>)

ScenarioChain == <<Block1, Block2, Block3>>

\* "should handle complex transaction chains"
ChainBlocks ==
    { TestBlock(1, <<Tx("tx1", <<>>, <<Out("addr1", 100)>>)>>),
      TestBlock(2, <<Tx("tx2", <<In("tx1", 0)>>,
                        <<Out("addr2", 30), Out("addr3", 70)>>)>>),
      TestBlock(3, <<Tx("tx3", <<In("tx2", 1)>>,
                        <<Out("addr4", 25), Out("addr5", 45)>>)>>) }

ScenarioPool ==
    LET good == {Block1, Block2, Block3} \cup ChainBlocks
    IN good \cup {[b EXCEPT !.id = "invalid"] : b \in good}

NextScenario ==
    \/ \E block \in ScenarioPool : SubmitBlock(block)
    \/ \E block \in ScenarioPool : ProcessBlock(block)
    \/ \E heightNum \in Targets : Rollback(heightNum)
    \/ \E targetHeight \in Targets : RollbackToHeight(targetHeight)

SpecScenario == Init /\ [][NextScenario]_vars

----------------------------------------------------------------------------
(* Notions the properties are stated in. *)

RECURSIVE SumValues(_)
SumValues(rows) ==
    IF rows = {} THEN 0
    ELSE LET row == CHOOSE u \in rows : TRUE IN row.value + SumValues(rows \ {row})

\* The total value of the unspent UTXOs an address owns.
UnspentValue(d, address) ==
    SumValues({u \in d.utxos : u.address = address /\ ~u.is_spent})

\* Every address of the store: those with a balance row or a UTXO.
KnownAddresses(d) == DOMAIN d.address_balances \cup {u.address : u \in d.utxos}

BalanceCorrect(d) ==
    \A address \in KnownAddresses(d) :
        getAddressBalance(d, address) = UnspentValue(d, address)

\* The store with the balance rows that hold 0 left out.
Norm(d) ==
    [d EXCEPT !.address_balances =
        [a \in {x \in DOMAIN d.address_balances : d.address_balances[x] # 0}
            |-> d.address_balances[a]]]

SameBalances(d, e) ==
    \A address \in KnownAddresses(d) \cup KnownAddresses(e) :
        getAddressBalance(d, address) = getAddressBalance(e, address)

RECURSIVE Replay(_, _, _)
\* processBlock of blocks[i], blocks[i+1], ... in turn, from the store c.db
Replay(c, blocks, i) ==
    IF i > Len(blocks) \/ c.err # OK THEN c
    ELSE Replay(processBlock(c.db, blocks[i]), blocks, i + 1)

\* The stored blocks are B1..Bn, applied in this order to an empty ledger
\* (balance rows left at 0 by earlier rollbacks apart).
FromEmpty == Norm(db) = Norm(Replay(Ctx(EmptyDB, OK), applied, 1).db)

\* The work processBlock has done when it stops, before COMMIT or ROLLBACK.
Attempt(d, block) ==
    ProcessTransactions(InsertBlock(d, block), block.transactions, 1, block.height)

\* Every input of the transaction names an unspent UTXO of the store.
Resolves(d, transaction) ==
    \A i \in 1..Len(transaction.inputs) : UnspentRows(d, transaction.inputs[i]) # {}

RECURSIVE ReferencedValue(_, _, _)
\* The sum, over the inputs, of the value of the UTXO each one names.
ReferencedValue(d, inputs, i) ==
    IF i > Len(inputs) THEN 0
    ELSE SumValues(UnspentRows(d, inputs[i])) + ReferencedValue(d, inputs, i + 1)

\* A transaction with inputs, all of them resolved, that pays out another
\* total than it takes in.
ViolatesConservation(d, transaction) ==
    /\ Len(transaction.inputs) > 0
    /\ Resolves(d, transaction)
    /\ ReferencedValue(d, transaction.inputs, 1) # SumOutputs(transaction.outputs, 1)

RightHeight(d, block) == block.height = MaxStoredHeight(d) + 1

RightId(block) == block.id = ExpectedId(block.height, block.transactions)

\* The inputs of a block as <<transaction position, input position>> pairs.
InputPositions(block) ==
    {p \in (1..Len(block.transactions)) \X (1..2) :
        p[2] <= Len(block.transactions[p[1]].inputs)}

InputAt(block, p) == block.transactions[p[1]].inputs[p[2]]

\* The block names an outpoint that is already consumed: spent in the
\* store, or named by two inputs of the block.
NamesConsumedOutpoint(d, block) ==
    \/ \E p \in InputPositions(block) :
          \E u \in d.utxos : /\ u.tx_id = InputAt(block, p).txId
                             /\ u.output_index = InputAt(block, p).index
                             /\ u.is_spent
    \/ \E p, q \in InputPositions(block) : p # q /\ InputAt(block, p) = InputAt(block, q)

\* Every input of the block names a row of the utxos table.
NamesStoredOutpoints(d, block) ==
    \A p \in InputPositions(block) :
        \E u \in d.utxos : /\ u.tx_id = InputAt(block, p).txId
                           /\ u.output_index = InputAt(block, p).index

----------------------------------------------------------------------------
(* The handlers of index.ts under concurrent requests.  A handler gives way
   to the others at each await: between validateBlock and processBlock,
   between validateRollbackHeight and rollbackToHeight, and between the
   statements of rollbackToHeight, which run in a transaction of the default
   isolation level (read committed): each statement reads what is committed
   when it starts.  db is the committed store; applied, the history of the
   requests handled one at a time, is not kept here. *)

\* The blocks the concurrent clients post, of one transaction each: the
\* mint b, the spend c of its first output, the mint a, or a mint with the
\* id b whose first output is worth 2.
ConcurrentPool ==
    {TestBlock(h, <<t>>) :
        h \in 1..MaxHeight,
        t \in {Tx("b", <<>>, <<Out("x", 1), Out("y", 1)>>),
               Tx("c", <<In("b", 0)>>, <<Out("y", 1)>>),
               Tx("a", <<>>, <<Out("y", 2)>>),
               Tx("b", <<>>, <<Out("x", 2)>>)}}

\* The ledger has not been damaged yet: the heights are 1..n and the
\* balances match the UTXOs.  New requests are taken as long as it holds.
Sound(d) ==
    /\ {b.height : b \in d.blocks} = 1..Cardinality(d.blocks)
    /\ BalanceCorrect(d)

\* The request of client c is over; a request of another client that has
\* selected its blocks notes the first two commits that happen before it
\* goes on (history, for the properties).
Noting(c, entry) ==
    [o \in Clients |->
        IF o = c THEN Idle
        ELSE IF inflight[o].pc = "rollbackBlock" /\ Len(inflight[o].during) < 2
        THEN [inflight[o] EXCEPT !.during = Append(@, entry)]
        ELSE inflight[o]]

\* POST /blocks up to the end of await validateBlock(pool, block)
ValidateBlock(c, block) ==
    LET v == ValidateBlockCall(db, block)
    IN /\ inflight[c] = Idle
       /\ Sound(db)
       /\ db' = v.db
       /\ IF v.err # OK
          THEN /\ response' = Resp("POST /blocks", Surface(v.err))
               /\ UNCHANGED inflight
          ELSE /\ response' = Resp("validateBlock", OK)
               /\ inflight' = [inflight EXCEPT
                                  ![c] = [pc |-> "processBlock", block |-> block]]
       /\ UNCHANGED applied

\* POST /blocks from await utxoManager.processBlock(block) to the reply
ApplyBlock(c) ==
    LET req == inflight[c]
        p == processBlock(db, req.block)
    IN /\ req.pc = "processBlock"
       /\ db' = p.db
       /\ response' = Resp("POST /blocks", Surface(p.err))
       /\ inflight' = IF p.err = OK
                      THEN Noting(c, [op |-> "processBlock", block |-> req.block])
                      ELSE [inflight EXCEPT ![c] = Idle]
       /\ UNCHANGED applied

\* POST /rollback up to the end of await validateRollbackHeight(pool, heightNum)
ValidateRollback(c, heightNum) ==
    LET v == IF heightNum < 0 THEN Ctx(db, BadRequest)
             ELSE ValidateRollbackHeightCall(db, heightNum)
    IN /\ inflight[c] = Idle
       /\ Sound(db)
       /\ db' = v.db
       /\ IF v.err # OK
          THEN /\ response' = Resp("POST /rollback", v.err)
               /\ UNCHANGED inflight
          ELSE /\ response' = Resp("validateRollbackHeight", OK)
               /\ inflight' = [inflight EXCEPT
                                  ![c] = [pc |-> "rollbackToHeight", height |-> heightNum]]
       /\ UNCHANGED applied

\* rollbackToHeight: BEGIN and the SELECT of the blocks above the target;
\* before is the store the SELECT has read (history, for the properties).
SelectBlocks(c) ==
    LET req == inflight[c]
    IN /\ req.pc = "rollbackToHeight"
       /\ inflight' = [inflight EXCEPT
                          ![c] = [pc |-> "rollbackBlock", height |-> req.height,
                                  rows |-> BlocksToRemove(db, req.height),
                                  before |-> db, during |-> <<>>]]
       /\ UNCHANGED <<db, response, applied>>

\* rollbackToHeight from the loop over the selected rows to COMMIT, and the
\* reply of POST /rollback
UndoBlocks(c) ==
    LET req == inflight[c]
        r == UndoSelected(db, req.rows, req.height)
    IN /\ req.pc = "rollbackBlock"
       /\ db' = r.db
       /\ response' = Resp("POST /rollback", Surface(r.err))
       /\ inflight' = Noting(c, [op |-> "rollbackToHeight", height |-> req.height])
       /\ UNCHANGED applied

NextConcurrent ==
    \/ \E c \in Clients, block \in ConcurrentPool : ValidateBlock(c, block)
    \/ \E c \in Clients : ApplyBlock(c)
    \/ \E c \in Clients, heightNum \in Targets : ValidateRollback(c, heightNum)
    \/ \E c \in Clients : SelectBlocks(c)
    \/ \E c \in Clients : UndoBlocks(c)

SpecConcurrent == Init /\ [][NextConcurrent]_vars

----------------------------------------------------------------------------
(* C1 - C10 *)

\* C1: in every state reached by processBlock and rollbackToHeight calls,
\* the recorded balance of every address (0 without a row) is the sum of
\* the values of its unspent UTXOs.  Violated: rollbackBlock undoes the
\* transactions of a block in ascending id order, and rollbackTransaction
\* debits an output that a later-sorted transaction of the block has spent.
C1_BalanceCorrectness == BalanceCorrect(db)

\* C2: rolling back to any height k of the chain B1..Bn and applying
\* B(k+1)..Bn again gives the balances and the UTXO set held before the
\* rollback.
C2_InverseLaw ==
    FromEmpty =>
        \A k \in 0..Len(applied) :
            LET rolled == rollbackToHeight(db, k)
                again == Replay(rolled, applied, k + 1)
            IN /\ again.err = OK
               /\ SameBalances(again.db, db)
               /\ again.db.utxos = db.utxos

\* C3: a processBlock that fails leaves blocks, transactions, UTXOs and
\* balances as they were before the call, whatever it had applied before
\* the failure.
C3_AllOrNothing ==
    \A block \in Pool :
        LET r == processBlock(db, block)
        IN r.err # OK => r.db = db

\* C3 witness: a processBlock has just failed on an input lookup after it
\* had inserted rows, and the store shows none of them.
C3_Witness ==
    /\ response = Resp("processBlock", UtxoError)
    /\ \E block \in DirectPool :
          /\ Attempt(db, block).err = UtxoError
          /\ Attempt(db, block).db.utxos # db.utxos
          /\ processBlock(db, block).db = db

\* C4: a block is accepted only at the height MAX(height) + 1 (1 on an
\* empty ledger); at any other height validateBlock fails with
\* InvalidHeight and the store is unchanged.
C4_HeightMonotonicity ==
    \A block \in Pool :
        LET r == PostBlocks(db, block)
        IN /\ r.err = OK => block.height = MaxStoredHeight(db) + 1
           /\ block.height # MaxStoredHeight(db) + 1 =>
                 /\ validateBlock(db, block) = InvalidHeight
                 /\ r.err = InvalidHeight
                 /\ r.db = db

\* C4 witness: a block was refused for its height on a ledger that holds
\* blocks, and another was accepted at the next height.
C4_Witness ==
    /\ response = Resp("POST /blocks", InvalidHeight)
    /\ MaxStoredHeight(db) = 2
    /\ \E block \in Pool : PostBlocks(db, block).err = OK /\ block.height = 3

\* C5 as stated: a block with a transaction that has inputs, all resolved,
\* and whose outputs do not add up to them is rejected with ValueMismatch,
\* and the store is unchanged.  Violated: validateBlock checks the height
\* and the id first, and the transactions in order.
C5_Original ==
    \A block \in Pool :
        (\E i \in 1..Len(block.transactions) :
            ViolatesConservation(db, block.transactions[i]))
        => LET r == PostBlocks(db, block)
           IN r.err = ValueMismatch /\ r.db = db

\* C5 amended: such a block is always rejected and the store is unchanged;
\* the error is ValueMismatch when the height and the id are right and
\* every input of the transactions before the first violating one resolves,
\* and otherwise that of the check that fails first: InvalidHeight,
\* InvalidBlockId or InputNotFound.
C5_Conservation ==
    \A block \in Pool :
        LET bad == {i \in 1..Len(block.transactions) :
                       ViolatesConservation(db, block.transactions[i])}
            first == CHOOSE i \in bad : \A j \in bad : i <= j
            r == PostBlocks(db, block)
        IN bad # {} =>
             /\ r.db = db
             /\ r.err = IF ~RightHeight(db, block) THEN InvalidHeight
                        ELSE IF ~RightId(block) THEN InvalidBlockId
                        ELSE IF \E j \in 1..(first - 1) :
                                   ~Resolves(db, block.transactions[j])
                        THEN InputNotFound
                        ELSE ValueMismatch

\* C5 witness: a block at the right height with the right id was refused
\* with ValueMismatch on a ledger that holds the UTXO it spends.
C5_Witness ==
    /\ response = Resp("POST /blocks", ValueMismatch)
    /\ \E block \in Pool :
          /\ RightHeight(db, block) /\ RightId(block)
          /\ \E i \in 1..Len(block.transactions) :
                ViolatesConservation(db, block.transactions[i])

\* C6: a block that names an already consumed outpoint - consumed by an
\* earlier block, or named by two inputs of the block - is rejected with
\* InputNotFound.  Stated for the blocks with no other defect: right height
\* and id, every input naming a stored outpoint, no transaction violating
\* conservation.  Violated: validateBlock resolves every input against the
\* store as it is before the block, so it accepts an outpoint named twice;
\* spendUTXO then throws a plain Error, answered as an internal error.
C6_DoubleSpendRejected ==
    \A block \in Pool :
        ( /\ RightHeight(db, block) /\ RightId(block)
          /\ NamesStoredOutpoints(db, block)
          /\ \A i \in 1..Len(block.transactions) :
                ~ViolatesConservation(db, block.transactions[i])
          /\ NamesConsumedOutpoint(db, block) )
        => PostBlocks(db, block).err = InputNotFound

\* C7 as stated: validateBlock fails with InputNotFound whenever an input
\* of the block names no unspent UTXO of the store, and the store is
\* unchanged.  Violated: the height, the id and the earlier transactions
\* are checked first.
C7_Original ==
    \A block \in Pool :
        (\E i \in 1..Len(block.transactions) : ~Resolves(db, block.transactions[i]))
        => /\ validateBlock(db, block) = InputNotFound
           /\ PostBlocks(db, block).db = db

\* C7 amended: such a block always fails validateBlock and the store is
\* unchanged; the error is InputNotFound when the height and the id are
\* right and no transaction before the first unresolved one violates
\* conservation, and otherwise that of the check that fails first:
\* InvalidHeight, InvalidBlockId or ValueMismatch.
C7_InputResolution ==
    \A block \in Pool :
        LET bad == {i \in 1..Len(block.transactions) :
                       ~Resolves(db, block.transactions[i])}
            first == CHOOSE i \in bad : \A j \in bad : i <= j
            r == PostBlocks(db, block)
        IN bad # {} =>
             /\ r.db = db
             /\ r.err = validateBlock(db, block)
             /\ validateBlock(db, block) =
                    IF ~RightHeight(db, block) THEN InvalidHeight
                    ELSE IF ~RightId(block) THEN InvalidBlockId
                    ELSE IF \E j \in 1..(first - 1) :
                               ViolatesConservation(db, block.transactions[j])
                    THEN ValueMismatch
                    ELSE InputNotFound

\* C7 witness: a block at the right height with the right id was refused
\* with InputNotFound because it names an outpoint that is spent.
C7_Witness ==
    /\ response = Resp("POST /blocks", InputNotFound)
    /\ \E block \in Pool :
          /\ RightHeight(db, block) /\ RightId(block)
          /\ validateBlock(db, block) = InputNotFound
          /\ \E p \in InputPositions(block) :
                \E u \in db.utxos : /\ u.tx_id = InputAt(block, p).txId
                                    /\ u.output_index = InputAt(block, p).index
                                    /\ u.is_spent

\* C8: after B1..Bn, rollbackToHeight(k) leaves the blocks, transactions,
\* UTXOs and balances that applying B1..Bk to an empty ledger gives (a
\* balance row of 0 counting as no row).
C8_RollbackRestoresPrefix ==
    FromEmpty =>
        \A k \in 0..Len(applied) :
            Norm(rollbackToHeight(db, k).db)
                = Norm(Replay(Ctx(EmptyDB, OK), SubSeq(applied, 1, k), 1).db)

\* C9: from a ledger reached by applying blocks, rollbackToHeight(0) leaves
\* no block, transaction or UTXO row, and every balance row reads 0.
C9_RollbackToZero ==
    FromEmpty =>
        LET r == rollbackToHeight(db, 0).db
        IN /\ r.blocks = {} /\ r.transactions = {} /\ r.utxos = {}
           /\ \A address \in DOMAIN r.address_balances :
                 getAddressBalance(r, address) = 0

\* A store whose balances are exactly those of the function given.
BalancesAre(d, balances) ==
    /\ \A address \in DOMAIN balances : getAddressBalance(d, address) = balances[address]
    /\ \A address \in KnownAddresses(d) \ DOMAIN balances :
          getAddressBalance(d, address) = 0

ScenarioNames == {"genesis", "alpha", "beta", "charlie", "delta"}

AfterBlock3 ==
    [a \in ScenarioNames |->
        CASE a = "genesis" -> 0
          [] a = "alpha" -> 150
          [] a = "beta" -> 400
          [] a = "charlie" -> 300
          [] a = "delta" -> 150]

AfterRollbackTo1 == [a \in ScenarioNames |-> IF a = "genesis" THEN 1000 ELSE 0]

\* C10 (Scenario A): once Block1, Block2 and Block3 are applied the
\* balances are genesis 0, alpha 150, beta 400, charlie 300, delta 150; a
\* rollback to height 1 from there, posted or called, gives genesis 1000
\* and 0 for alpha, beta, charlie and delta.
C10_ScenarioA ==
    applied = ScenarioChain =>
        /\ BalancesAre(db, AfterBlock3)
        /\ PostRollback(db, 1).err = OK
        /\ BalancesAre(PostRollback(db, 1).db, AfterRollbackTo1)
        /\ BalancesAre(rollbackToHeight(db, 1).db, AfterRollbackTo1)

\* C10 witness: the three blocks were applied (delta has a balance row)
\* and a posted rollback has left Block1 alone, with genesis at 1000.
C10_Witness ==
    /\ response = Resp("POST /rollback", OK)
    /\ applied = <<Block1>>
    /\ "delta" \in DOMAIN db.address_balances
    /\ BalancesAre(db, AfterRollbackTo1)

----------------------------------------------------------------------------
(* C11 - C20 *)

\* C11: a rollback request (validateRollbackHeight, then rollbackToHeight)
\* with targetHeight < 0 or targetHeight > MAX(height) fails with
\* InvalidRollbackHeight and the store is unchanged; every target from 0 to
\* MAX(height) is accepted.  POST /rollback answers the same, a negative
\* height being refused by the handler before the request is made.
C11_RollbackPrecondition ==
    \A targetHeight \in (-1)..(MaxHeight + 1) :
        LET v == validateRollbackHeight(db, targetHeight)
            r == RollbackRequest(db, targetHeight)
            p == PostRollback(db, targetHeight)
        IN IF targetHeight < 0 \/ targetHeight > MaxStoredHeight(db)
           THEN /\ v = InvalidRollbackHeight
                /\ r.err = InvalidRollbackHeight /\ r.db = db
                /\ p.err # OK /\ p.db = db
                /\ targetHeight >= 0 => p.err = InvalidRollbackHeight
           ELSE v = OK /\ r.err = OK /\ p.err = OK

\* C11 witness: on a ledger that holds blocks, a posted rollback to a
\* height above the current one was refused.
C11_Witness ==
    /\ response = Resp("POST /rollback", InvalidRollbackHeight)
    /\ db.blocks # {}
    /\ MaxStoredHeight(db) < MaxHeight
    /\ db.utxos # {}

\* C12: rollbackToHeight(h) with h = MAX(height) leaves blocks,
\* transactions, UTXOs and balances as they are, called or posted, and a
\* second rollback to h leaves what the first one left.
C12_RollbackToCurrentIsNoOp ==
    LET h == MaxStoredHeight(db)
        once == rollbackToHeight(db, h)
        twice == rollbackToHeight(once.db, h)
        posted == PostRollback(db, h)
    IN /\ once.err = OK /\ once.db = db
       /\ twice.err = OK /\ twice.db = once.db
       /\ posted.err = OK /\ posted.db = db

\* C12 witness: a rollback was called on a ledger of MaxHeight blocks and
\* they are all still there with their UTXOs, so its target was the current
\* height.
C12_Witness ==
    /\ response = Resp("rollbackToHeight", OK)
    /\ MaxStoredHeight(db) = MaxHeight
    /\ Len(applied) = MaxHeight
    /\ db.utxos # {}

\* The blocks table holds a row with the id and the height of the block.
Stored(d, block) == \E b \in d.blocks : b.id = block.id /\ b.height = block.height

\* C13: as long as a block is stored, submitting it again fails and leaves
\* the store unchanged: POST /blocks refuses its height, and a direct
\* processBlock fails on the constraints of the blocks table.
C13_NoDoubleApplication ==
    \A block \in Pool :
        Stored(db, block) =>
            /\ PostBlocks(db, block) = Ctx(db, InvalidHeight)
            /\ processBlock(db, block) = Ctx(db, UniqueViolation)

\* C13 witness: a direct processBlock has failed on a constraint while a
\* block with outputs is stored whose second application fails so, the
\* balances standing at the sum of the unspent UTXOs.
C13_Witness ==
    /\ response = Resp("processBlock", UniqueViolation)
    /\ BalanceCorrect(db)
    /\ \E block \in DirectPool :
          /\ Stored(db, block)
          /\ block.height = MaxStoredHeight(db)
          /\ \E i \in 1..Len(block.transactions) : Len(block.transactions[i].outputs) > 0
          /\ Attempt(db, block).err = UniqueViolation

\* The ids of the transactions of a block, last applied first.
ReverseIds(transactions) ==
    [i \in 1..Len(transactions) |-> transactions[Len(transactions) + 1 - i].id]

\* C20: rollbackToHeight(k) takes the blocks above k in strictly descending
\* height order, and undoes the transactions of each stored block in the
\* reverse of the order of its array, in which processBlock applied them.
\* Violated: rollbackBlock reads the transactions of the block with
\* ORDER BY id, whatever the order of the array was.
C20_RollbackOrder ==
    /\ \A k \in Targets :
          LET rows == BlocksToRemove(db, k)
          IN /\ {rows[i] : i \in 1..Len(rows)} = {b \in db.blocks : b.height > k}
             /\ \A i \in 1..(Len(rows) - 1) : rows[i].height > rows[i + 1].height
    /\ \A i \in 1..Len(applied) :
          Stored(db, applied[i]) =>
              TransactionsOfBlock(db, applied[i].id) = ReverseIds(applied[i].transactions)

\* C16: a block submission is answered ok or with a ValidationError, never
\* with InternalError (the store of the model does not fail by itself, so
\* every rejection is caused by the block or by the ledger), and a rejected
\* block leaves the store as it was.  Violated: a rejection that
\* processBlock detects - an outpoint named twice in the block, a
\* transaction id that is already stored or twice in the block - is a plain
\* Error or a constraint violation, answered as InternalError.
C16_ErrorTaxonomy ==
    \A block \in Pool :
        LET r == PostBlocks(db, block)
        IN /\ r.err \in {OK} \cup ValidationError
           /\ r.err # OK => r.db = db

\* C17: validateBlock and validateRollbackHeight leave the store as it is,
\* whether they pass or throw: a request refused by its validation returns
\* the store unchanged, and a block that passes is applied to the store as
\* it was before validateBlock.
C17_ValidationReadOnly ==
    /\ \A block \in Pool :
          LET v == ValidateBlockCall(db, block)
          IN /\ v.db = db
             /\ v.err # OK => PostBlocks(db, block).db = db
             /\ v.err = OK => PostBlocks(db, block).db = processBlock(db, block).db
    /\ \A targetHeight \in (-1)..(MaxHeight + 1) :
          LET v == ValidateRollbackHeightCall(db, targetHeight)
          IN /\ v.db = db
             /\ v.err # OK => RollbackRequest(db, targetHeight).db = db
             /\ v.err = OK => RollbackRequest(db, targetHeight).db
                                 = rollbackToHeight(db, targetHeight).db

\* C17 witness: validateBlock has refused the id of a block on a ledger
\* that holds unspent UTXOs, and another block of the pool passes it there.
C17_Witness ==
    /\ response = Resp("POST /blocks", InvalidBlockId)
    /\ \E u \in db.utxos : ~u.is_spent
    /\ \E block \in Pool :
          /\ Len(block.transactions) > 0
          /\ ValidateBlockCall(db, block) = Ctx(db, OK)

\* Output lists of every total from 0 to 4: none, one or two outputs.
MintOutputs ==
    {<<>>} \cup {<<Out(a, v)>> : a \in {"x", "y"}, v \in 0..2}
           \cup {<<Out("x", v), Out(a, w)>> : a \in {"x", "y"}, v \in 0..2, w \in 0..2}

\* Transactions with an empty input list.
Mints == {Tx(i, <<>>, o) : i \in {"a", "b"}, o \in MintOutputs}

\* Blocks at height 1 with the right id that carry mints only.
MintBlocks ==
    {TestBlock(1, t) : t \in {<<>>} \cup {<<m>> : m \in Mints}
                                   \cup {<<m, n>> : m \in Mints, n \in Mints}}

\* C18: a transaction with no inputs passes validateTransaction on every
\* ledger, whatever its outputs add up to, and on a ledger without blocks
\* validateBlock accepts every block at height 1 with the right id whose
\* transactions all have no inputs.
C18_MintExemption ==
    /\ \A m \in Mints : validateTransaction(db, m) = OK
    /\ db.blocks = {} => \A block \in MintBlocks : validateBlock(db, block) = OK

\* C18 witness: a posted block of mints with a positive total is the one
\* block of the ledger.
C18_Witness ==
    /\ response = Resp("POST /blocks", OK)
    /\ Len(applied) = 1 /\ Cardinality(db.blocks) = 1
    /\ Len(applied[1].transactions) > 0
    /\ \A i \in 1..Len(applied[1].transactions) :
          /\ Len(applied[1].transactions[i].inputs) = 0
          /\ SumOutputs(applied[1].transactions[i].outputs, 1) > 0

\* The addresses of the requests, and one that no request names.
Addresses == {"x", "y", "nobody"}

RECURSIVE CreditedByOutputs(_, _, _)
\* The total of the outputs i, i+1, ... of the list that pay the address.
CreditedByOutputs(outputs, i, address) ==
    IF i > Len(outputs) THEN 0
    ELSE (IF outputs[i].address = address THEN outputs[i].value ELSE 0)
         + CreditedByOutputs(outputs, i + 1, address)

RECURSIVE CreditedByTransactions(_, _, _)
CreditedByTransactions(transactions, i, address) ==
    IF i > Len(transactions) THEN 0
    ELSE CreditedByOutputs(transactions[i].outputs, 1, address)
         + CreditedByTransactions(transactions, i + 1, address)

RECURSIVE CreditedByBlocks(_, _, _)
CreditedByBlocks(blocks, i, address) ==
    IF i > Len(blocks) THEN 0
    ELSE CreditedByTransactions(blocks[i].transactions, 1, address)
         + CreditedByBlocks(blocks, i + 1, address)

\* The total of the outputs of the address that the transactions of the
\* block have spent, in the store d that processBlock leaves.
SpentByBlock(d, block, address) ==
    SumValues({u \in d.utxos :
                 /\ u.address = address /\ u.is_spent
                 /\ \E i \in 1..Len(block.transactions) :
                       u.spent_in_tx = block.transactions[i].id})

\* The ledger is the one that processBlock calls alone build from the
\* applied blocks.
BuiltByProcessBlock == db = Replay(Ctx(EmptyDB, OK), applied, 1).db

\* C19: getAddressBalance gives 0 for an address without a balance row and
\* the stored balance otherwise.  A successful processBlock moves the
\* balance of every address by the total of the outputs of the block that
\* pay it minus the total of its outputs that the block spends; on a ledger
\* built by processBlock calls the balance is the total of all outputs
\* credited to the address minus the total of its spent outputs.
C19_GetAddressBalance ==
    /\ \A address \in Addresses :
          getAddressBalance(db, address) =
              IF address \in DOMAIN db.address_balances
              THEN db.address_balances[address] ELSE 0
    /\ \A block \in DirectPool :
          LET p == processBlock(db, block)
          IN p.err = OK =>
               \A address \in Addresses :
                   getAddressBalance(p.db, address) =
                       getAddressBalance(db, address)
                       + CreditedByTransactions(block.transactions, 1, address)
                       - SpentByBlock(p.db, block, address)
    /\ BuiltByProcessBlock =>
          \A address \in Addresses :
              getAddressBalance(db, address) =
                  CreditedByBlocks(applied, 1, address)
                  - SumValues({u \in db.utxos : u.address = address /\ u.is_spent})

\* C19 witness: processBlock has applied a transaction with two outputs to
\* x that spends outputs of x and y; x reads the two outputs added up, y
\* has a row of 0 and nobody has no row.
C19_Witness ==
    /\ response = Resp("processBlock", OK)
    /\ BuiltByProcessBlock
    /\ \E u, w \in db.utxos :
          /\ u.tx_id = w.tx_id /\ u.output_index # w.output_index
          /\ u.address = "x" /\ w.address = "x"
    /\ \E u \in db.utxos : u.is_spent /\ u.address = "y"
    /\ getAddressBalance(db, "x") = 2
    /\ getAddressBalance(db, "y") = 0 /\ "y" \in DOMAIN db.address_balances
    /\ getAddressBalance(db, "nobody") = 0 /\ "nobody" \notin DOMAIN db.address_balances

\* C14: under concurrent block submissions and rollback requests the
\* heights of the committed blocks are exactly 1..n, without duplicate and
\* without gap.  Violated: nothing serializes the requests, so a block
\* validated at height n+1 is applied after a rollback, committed in
\* between, has removed the blocks below it.
C14_HeightInvariant ==
    {b.height : b \in db.blocks} = 1..Cardinality(db.blocks)

\* C15: one processBlock that commits between the statements of one
\* rollbackToHeight leaves, when the rollback commits, the store that the
\* two calls give when run one after the other in one of the two orders,
\* from the store as it was before both.  Violated: the DELETE of the
\* rollback removes, by cascade, the block committed after its SELECT,
\* whose transactions the loop has not undone.
C15_Serializable ==
    \A c \in Clients :
        LET req == inflight[c] IN
        (req.pc = "rollbackBlock" /\ Len(req.during) = 1
            /\ req.during[1].op = "processBlock") =>
        LET block == req.during[1].block
            final == UndoSelected(db, req.rows, req.height).db
            applyFirst == rollbackToHeight(processBlock(req.before, block).db, req.height).db
            undoFirst == processBlock(rollbackToHeight(req.before, req.height).db, block).db
        IN final = applyFirst \/ final = undoFirst

----------------------------------------------------------------------------
(* C21 - C28 *)

\* Blocks whose one transaction names its own first output as its input.
SelfSpendBlocks ==
    {TestBlock(h, <<Tx("c", <<In("c", 0)>>, <<Out("y", 1)>>)>>) : h \in 1..MaxHeight}

\* The input names an output of the transaction.
NamesOutputOf(input, transaction) ==
    input.txId = transaction.id /\ input.index < Len(transaction.outputs)

\* Neither the block nor one of its transactions is stored, the height is
\* free, and no two transactions of the block share an id.
Fresh(d, block) ==
    /\ \A b \in d.blocks : b.id # block.id /\ b.height # block.height
    /\ \A i \in 1..Len(block.transactions) :
          /\ \A t \in d.transactions : t.id # block.transactions[i].id
          /\ \A j \in 1..Len(block.transactions) :
                block.transactions[j].id = block.transactions[i].id => j = i

\* No outpoint is named twice, and every input names an unspent UTXO of the
\* store or an output of a strictly earlier transaction of the block.
SpendsEarlierOutputs(d, block) ==
    /\ \A p, q \in InputPositions(block) :
          InputAt(block, p) = InputAt(block, q) => p = q
    /\ \A p \in InputPositions(block) :
          \/ UnspentRows(d, InputAt(block, p)) # {}
          \/ \E j \in 1..(p[1] - 1) :
                NamesOutputOf(InputAt(block, p), block.transactions[j])

\* An input names an output of its own transaction or of a later one.
SpendsLaterOutput(block) ==
    \E p \in InputPositions(block) :
        \E j \in p[1]..Len(block.transactions) :
            NamesOutputOf(InputAt(block, p), block.transactions[j])

\* C21: processBlock applies the transactions in array order: a block
\* whose inputs name unspent UTXOs or outputs of strictly earlier
\* transactions of the block is applied, and a block with an input that
\* names an output of its own or of a later transaction fails with
\* InputNotFound and leaves the store unchanged.
C21_IntraBlockOrdering ==
    \A block \in DirectPool \cup SelfSpendBlocks :
        Fresh(db, block) =>
            /\ SpendsEarlierOutputs(db, block) => processBlock(db, block).err = OK
            /\ SpendsLaterOutput(block) =>
                  processBlock(db, block) = Ctx(db, InputNotFound)

\* The outputs of the block as <<transaction position, output position>> pairs.
OutputPositions(block) ==
    {p \in (1..Len(block.transactions)) \X (1..2) :
        p[2] <= Len(block.transactions[p[1]].outputs)}

\* The rows of the utxos table with the key (txId, index).
RowsKeyed(d, txId, index) ==
    {u \in d.utxos : u.tx_id = txId /\ u.output_index = index}

\* The row is named by an input of the block or belongs to one of its
\* transactions.
TouchedBy(block, u) ==
    \/ \E p \in InputPositions(block) :
          InputAt(block, p) = In(u.tx_id, u.output_index)
    \/ \E i \in 1..Len(block.transactions) : block.transactions[i].id = u.tx_id

\* C22: after a successful processBlock(block) the block row and one
\* transaction row per transaction are stored; every output i of every
\* transaction t has exactly one UTXO keyed (t.id, i) with the output's
\* address and value and the block's height; every UTXO named by an input of
\* t is spent with spent_in_tx = t.id; and no other row of the UTXO set is
\* added, removed or changed.
C22_ForwardApplication ==
    \A block \in DirectPool :
        LET after == processBlock(db, block) IN
        after.err = OK =>
            /\ after.db.blocks = db.blocks \cup {[id |-> block.id, height |-> block.height]}
            /\ after.db.transactions =
                  db.transactions \cup
                  {[id |-> block.transactions[i].id, block_id |-> block.id,
                    block_height |-> block.height] : i \in 1..Len(block.transactions)}
            /\ Cardinality(after.db.transactions \ db.transactions)
                  = Len(block.transactions)
            /\ \A p \in OutputPositions(block) :
                  LET t == block.transactions[p[1]]
                      rows == RowsKeyed(after.db, t.id, p[2] - 1)
                  IN /\ Cardinality(rows) = 1
                     /\ \A u \in rows : /\ u.address = t.outputs[p[2]].address
                                        /\ u.value = t.outputs[p[2]].value
                                        /\ u.block_height = block.height
            /\ \A p \in InputPositions(block) :
                  LET rows == RowsKeyed(after.db, InputAt(block, p).txId,
                                        InputAt(block, p).index)
                  IN /\ rows # {}
                     /\ \A u \in rows :
                           u.is_spent /\ u.spent_in_tx = block.transactions[p[1]].id
            /\ \A u \in db.utxos :
                  \/ u \in after.db.utxos
                  \/ /\ TouchedBy(block, u)
                     /\ \E v \in after.db.utxos :
                           [v EXCEPT !.is_spent = u.is_spent,
                                     !.spent_in_tx = u.spent_in_tx] = u
            /\ \A v \in after.db.utxos : v \in db.utxos \/ TouchedBy(block, v)

\* C22 witness: processBlock has applied a block with a transaction that
\* spends a UTXO of an earlier block and creates its own, next to an unspent
\* UTXO that the block does not name.
C22_Witness ==
    /\ response = Resp("processBlock", OK)
    /\ Len(applied) > 1
    /\ LET block == applied[Len(applied)] IN
       /\ [id |-> block.id, height |-> block.height] \in db.blocks
       /\ \E i \in 1..Len(block.transactions) :
             LET t == block.transactions[i] IN
             /\ Len(t.inputs) > 0
             /\ RowsKeyed(db, t.id, 0) # {}
             /\ \A k \in 1..Len(t.inputs) :
                   \E u \in RowsKeyed(db, t.inputs[k].txId, t.inputs[k].index) :
                       u.spent_in_tx = t.id /\ u.block_height < block.height
       /\ \E u \in db.utxos : ~u.is_spent /\ ~TouchedBy(block, u)

\* The transaction rows with the id.
TransactionsWithId(d, id) == {t \in d.transactions : t.id = id}

\* C23: in every reachable state a UTXO is spent if and only if its
\* spent_in_tx is not NULL; the spent_in_tx of a spent UTXO names a stored
\* transaction at a height not below the UTXO's own; the transaction and
\* the block of every UTXO are stored; and rolling back the spending
\* transaction, by rollbackTransaction or by a rollback to a height between
\* the two, leaves the UTXO unspent with spent_in_tx NULL.
C23_UtxoLifecycle ==
    \A u \in db.utxos :
        /\ u.is_spent <=> u.spent_in_tx # NULL
        /\ \E t \in TransactionsWithId(db, u.tx_id) :
              /\ t.block_height = u.block_height
              /\ \E b \in db.blocks : b.id = t.block_id /\ b.height = t.block_height
        /\ u.is_spent =>
              /\ \E s \in TransactionsWithId(db, u.spent_in_tx) :
                    s.block_height >= u.block_height
              /\ u.spent_in_tx # u.tx_id
              /\ [u EXCEPT !.is_spent = FALSE, !.spent_in_tx = NULL]
                    \in rollbackTransaction(db, u.spent_in_tx).utxos
              /\ \A s \in TransactionsWithId(db, u.spent_in_tx) :
                    \A targetHeight \in u.block_height..(s.block_height - 1) :
                        [u EXCEPT !.is_spent = FALSE, !.spent_in_tx = NULL]
                            \in rollbackToHeight(db, targetHeight).db.utxos

\* C23 witness: after a rollback that has kept two blocks or more, the
\* store holds an unspent UTXO of a kept block and a UTXO spent by a
\* transaction of a later block.
C23_Witness ==
    /\ response.op \in {"POST /rollback", "rollbackToHeight"}
    /\ response.result = OK
    /\ Len(applied) > 1
    /\ \E u, v \in db.utxos :
          /\ ~u.is_spent /\ v.is_spent
          /\ \E s \in TransactionsWithId(db, v.spent_in_tx) :
                s.block_height > v.block_height
          /\ \E i \in 1..Len(applied) :
                \E k \in 1..Len(applied[i].transactions) :
                    /\ applied[i].transactions[k].id = u.tx_id
                    /\ applied[i].height = u.block_height

\* Blocks of three transactions drawn from the two mints and the spend c,
\* with the id validateBlockId expects or another one.
TripleBlocks ==
    LET three == {t \in Txs : t.inputs = <<>> \/ t = Tx("c", <<In("b", 0)>>, <<Out("y", 1)>>)}
        lists == {<<r, s, t>> : r \in three, s \in three, t \in three}
    IN {TestBlock(h, l) : h \in 1..MaxHeight, l \in lists} \cup
       {[id |-> "invalid", height |-> h, transactions |-> l] :
           h \in 1..MaxHeight, l \in lists}

\* The block with its transactions array in every order.
Permuted(block) ==
    LET n == Len(block.transactions)
        orders == {f \in [1..n -> 1..n] : \A i, j \in 1..n : f[i] = f[j] => i = j}
    IN {[block EXCEPT !.transactions = [i \in 1..n |-> block.transactions[f[i]]]] :
           f \in orders}

\* The id check on the block: the expected id is the hash of the decimal
\* height followed by the ids in ascending order (of distinct ids, the set
\* in ORDER BY order), a block with another id fails with InvalidBlockId,
\* and the expected id and the verdict are those of every other order of
\* the transactions array.
IdCheckIgnoresOrder(block) ==
    /\ ExpectedId(block.height, block.transactions)
          = Sha256(ToString(block.height)
                   \o Join(OrderById({block.transactions[i].id :
                                         i \in 1..Len(block.transactions)})))
          \/ \E i, j \in 1..Len(block.transactions) :
                i # j /\ block.transactions[i].id = block.transactions[j].id
    /\ block.id # ExpectedId(block.height, block.transactions)
          => validateBlockId(block) = InvalidBlockId
    /\ \A other \in Permuted(block) :
          /\ ExpectedId(other.height, other.transactions)
                = ExpectedId(block.height, block.transactions)
          /\ validateBlockId(other) = validateBlockId(block)

\* The block of two transactions with the two exchanged.
Exchanged(block) ==
    [block EXCEPT !.transactions = <<block.transactions[2], block.transactions[1]>>]

\* C24: for a fixed height, id and set of transactions the id check of
\* validateBlock gives the same verdict for every order of the transactions
\* array: the expected id is the hash of the decimal height followed by the
\* transaction ids sorted ascending, and a block with another id fails with
\* InvalidBlockId (the blocks of the pool and the blocks of three
\* transactions in their six orders, looked at on the ledgers without
\* blocks: the id check does not read the ledger); on every ledger
\* validateBlock refuses a block for its id exactly when it refuses the
\* block with its transactions exchanged.
C24_BlockIdOrderIndependent ==
    /\ db.blocks = {} =>
          \A block \in Pool \cup TripleBlocks : IdCheckIgnoresOrder(block)
    /\ \A block \in Pool :
          /\ (RightHeight(db, block) /\ ~RightId(block))
                => validateBlock(db, block) = InvalidBlockId
          /\ Len(block.transactions) = 2
                => ((validateBlock(db, block) = InvalidBlockId)
                      <=> (validateBlock(db, Exchanged(block)) = InvalidBlockId))

\* C24 witness: a posted block whose two transactions are not in ascending
\* id order has passed the id check and is stored.
C24_Witness ==
    /\ response = Resp("POST /blocks", OK)
    /\ Len(applied) > 0
    /\ LET block == applied[Len(applied)] IN
       /\ Len(block.transactions) = 2
       /\ Rank(block.transactions[1].id) > Rank(block.transactions[2].id)
       /\ [id |-> block.id, height |-> block.height] \in db.blocks
       /\ \E other \in Permuted(block) : other # block /\ validateBlockId(other) = OK

\* Blocks with an output of negative value: a mint, and a spend of b:1 that
\* pays out -1 and 2 for the 1 it takes in.
NegativeBlocks ==
    {TestBlock(h, <<t>>) :
        h \in 1..MaxHeight,
        t \in {Tx("tx1", <<>>, <<Out("x", -1)>>),
               Tx("tx2", <<In("b", 1)>>, <<Out("x", -1), Out("y", 2)>>)}}

\* The blocks the clients post: those of the pool and the negative ones.
PostedPool == Pool \cup NegativeBlocks

\* The server as its clients see it: blocks come in through POST /blocks
\* and rollbacks through POST /rollback, one request at a time.
NextPosted ==
    \/ \E block \in PostedPool : SubmitBlock(block)
    \/ \E heightNum \in Targets : Rollback(heightNum)

SpecPosted == Init /\ [][NextPosted]_vars

\* The block carries an output with a value below 0.
HasNegativeOutput(block) ==
    \E p \in OutputPositions(block) :
        block.transactions[p[1]].outputs[p[2]].value < 0

\* C25: in every state reached through posted blocks and posted rollbacks
\* every stored UTXO value is a non-negative integer, every address balance
\* is at least 0, and a posted block with an output of negative value is
\* not applied.
C25_NonNegativeValues ==
    /\ \A u \in db.utxos : u.value \in Nat
    /\ \A address \in DOMAIN db.address_balances : db.address_balances[address] >= 0
    /\ \A block \in PostedPool :
          HasNegativeOutput(block) =>
              /\ PostBlocks(db, block).err # OK
              /\ PostBlocks(db, block).db = db

\* C26: requests handled one at a time, no store failure: every block that
\* validateBlock accepts on the current ledger is then applied by
\* processBlock on that ledger; a block that processBlock rejects (an
\* outpoint consumed twice within the block, a transaction id already
\* stored or repeated in the block) is rejected by validateBlock already.
C26_ValidatorAndLedgerAgree ==
    \A block \in Pool :
        /\ validateBlock(db, block) = OK => processBlock(db, block).err = OK
        /\ Attempt(db, block).err \in {UtxoError, UniqueViolation}
              => validateBlock(db, block) \in ValidationError

RECURSIVE SumBalances(_, _)
\* The sum of the balances of the addresses.
SumBalances(d, addresses) ==
    IF addresses = {} THEN 0
    ELSE LET address == CHOOSE a \in addresses : TRUE
         IN d.address_balances[address] + SumBalances(d, addresses \ {address})

TotalBalance(d) == SumBalances(d, DOMAIN d.address_balances)

RECURSIVE MintedByTransactions(_, _)
\* The total of the outputs of the transactions i, i+1, ... of the list
\* that have no inputs.
MintedByTransactions(transactions, i) ==
    IF i > Len(transactions) THEN 0
    ELSE (IF Len(transactions[i].inputs) = 0
          THEN SumOutputs(transactions[i].outputs, 1) ELSE 0)
         + MintedByTransactions(transactions, i + 1)

RECURSIVE MintedByBlocks(_, _)
MintedByBlocks(blocks, i) ==
    IF i > Len(blocks) THEN 0
    ELSE MintedByTransactions(blocks[i].transactions, 1) + MintedByBlocks(blocks, i + 1)

\* C27: in every state reached by blocks and rollbacks posted one after the
\* other, the stored blocks are those posted and not rolled back and the
\* sum of all address balances is the total of the outputs of their
\* transactions without inputs; a posted block changes the sum by the
\* outputs of its transactions without inputs (a block of transactions
\* with inputs leaves it as it is), and a posted rollback leaves the total
\* minted by the blocks it keeps.
C27_TotalSupply ==
    /\ db.blocks = {[id |-> applied[i].id, height |-> applied[i].height] :
                       i \in 1..Len(applied)}
    /\ TotalBalance(db) = MintedByBlocks(applied, 1)
    /\ \A block \in PostedPool :
          LET r == PostBlocks(db, block) IN
          r.err = OK =>
              TotalBalance(r.db) = TotalBalance(db)
                                     + MintedByTransactions(block.transactions, 1)
    /\ \A heightNum \in Targets :
          LET r == PostRollback(db, heightNum) IN
          r.err = OK =>
              TotalBalance(r.db) = MintedByBlocks(Kept(applied, heightNum), 1)

\* C27 witness: the block posted last carries a transaction with inputs
\* and no mint, the balances add up to a positive total, and a rollback of
\* that block is accepted.
C27_Witness ==
    /\ response = Resp("POST /blocks", OK)
    /\ Len(applied) > 1
    /\ TotalBalance(db) > 0
    /\ LET block == applied[Len(applied)] IN
       /\ Len(block.transactions) > 0
       /\ \A i \in 1..Len(block.transactions) : Len(block.transactions[i].inputs) > 0
       /\ PostRollback(db, block.height - 1).err = OK
       /\ PostRollback(db, block.height - 1).db # db

\* The rows the stored transaction has consumed, and those it has created.
ConsumedBy(d, id) == {u \in d.utxos : u.spent_in_tx = id}
CreatedBy(d, id) == {u \in d.utxos : u.tx_id = id}

\* C28: whatever the interleaving of block submissions and rollbacks, each
\* committed transaction with inputs conserves value with respect to the
\* UTXOs it has consumed: a change committed between validateBlock and
\* processBlock of a submission cannot make the block commit with inputs of
\* other values than the validated ones.  Violated: processBlock does not
\* look at the values again, and nothing keeps another request from
\* replacing the validated UTXO in between.
C28_ValidationNotStale ==
    \A t \in db.transactions :
        ConsumedBy(db, t.id) # {} =>
            SumValues(ConsumedBy(db, t.id)) = SumValues(CreatedBy(db, t.id))

====
